---- MODULE Spec2Model ----
(***************************************************************************)
(* A model of substituter.py: substitute(entries) resolves the ${name}     *)
(* placeholders of a dictionary of strings in place, with a resolved set   *)
(* (memoization), a seen list (cycle detection) and two errors.            *)
(*                                                                         *)
(* Strings are sequences of one-character strings, so that the regular     *)
(* expression scan of line 51 is modelled character by character.  The     *)
(* recursion of resolve_substitution is an explicit stack of frames; one   *)
(* action is one step of the run (one call of capture_substituter, one     *)
(* return of resolve_substitution, one turn of the outer for loop).        *)
(***************************************************************************)
EXTENDS Integers, Sequences, FiniteSets, TLC

\* ------------------------------------------------------------------------
\* Bounds of the model
\* ------------------------------------------------------------------------

\* The number of pieces (see Pieces) all values of the input mapping are
\* built from, together.
MaxPieces == 3

\* ------------------------------------------------------------------------
\* Strings, names and the inputs that are explored
\* ------------------------------------------------------------------------

\* The names that may be keys of the input mapping.  A name that is not a
\* key of the mapping at hand is an undefined name.
AllNames == {<<"A">>, <<"B">>, <<"C">>}

\* The order in which AllNames are laid out when an input is built.
NameList == << <<"A">>, <<"B">>, <<"C">> >>

\* The characters of [a-zA-Z0-9_] that occur in the explored inputs.
IdentChars == {"A", "B", "C", "D"}

\* The text ${n}.
Placeholder(n) == <<"$", "{">> \o n \o <<"}">>

\* The building blocks of the explored values: a placeholder for each name,
\* a literal that coincides with a key name, and two fragments that are no
\* placeholder alone but form one when they are concatenated ("$", "{A}").
Pieces ==
  {Placeholder(n) : n \in AllNames} \cup {<<"A">>, <<"$">>, <<"{", "A", "}">>}

RECURSIVE Flatten(_)
\* The concatenation of a sequence of strings.
Flatten(ss) == IF ss = <<>> THEN <<>> ELSE Head(ss) \o Flatten(Tail(ss))

RECURSIVE Permutations_(_)
\* The orders in which a dictionary with key set S may be iterated
\* (the insertion orders of its keys).
Permutations_(S) ==
  IF S = {} THEN {<<>>}
  ELSE UNION {{<<k>> \o p : p \in Permutations_(S \ {k})} : k \in S}

\* ------------------------------------------------------------------------
\* The regular expression '\$\{([a-zA-Z0-9_]+)\}' of line 51
\* ------------------------------------------------------------------------

RECURSIVE IdentEnd(_, _)
\* The index of the last character of the longest run of identifier
\* characters of text that starts at i; i - 1 when there is none.
IdentEnd(text, i) ==
  IF i <= Len(text) /\ text[i] \in IdentChars THEN IdentEnd(text, i + 1) ELSE i - 1

\* Whether the pattern matches text at index i.  The identifier class
\* contains neither "}" nor "$", so the greedy run is the only candidate.
PatternMatchAt(text, i) ==
  /\ i + 3 <= Len(text)
  /\ text[i] = "$"
  /\ text[i + 1] = "{"
  /\ IdentEnd(text, i + 2) >= i + 2
  /\ IdentEnd(text, i + 2) + 1 <= Len(text)
  /\ text[IdentEnd(text, i + 2) + 1] = "}"

RECURSIVE Search(_, _)
\* The start index of the leftmost match of the pattern at or after pos
\* (the scan of re.sub goes from left to right); 0 when there is none.
Search(text, pos) ==
  IF pos > Len(text) THEN 0
  ELSE IF PatternMatchAt(text, pos) THEN pos
  ELSE Search(text, pos + 1)

HasMatch(text, pos) == Search(text, pos) # 0

\* The leftmost match at or after pos: where it starts, where it ends and
\* its group 1 (the captured identifier).
NextMatch(text, pos) ==
  LET i == Search(text, pos)
      e == IdentEnd(text, i + 2)
  IN  [start |-> i, end |-> e + 1, capture |-> SubSeq(text, i + 2, e)]

\* The captured identifiers of all non-overlapping matches in text from pos.
RECURSIVE CapturesFrom(_, _)
CapturesFrom(text, pos) ==
  IF ~HasMatch(text, pos) THEN {}
  ELSE LET m == NextMatch(text, pos)
       IN  {m.capture} \cup CapturesFrom(text, m.end + 1)

Captures(text) == CapturesFrom(text, 1)

\* ------------------------------------------------------------------------
\* State
\* ------------------------------------------------------------------------

VARIABLES
  entries,    \* the dictionary being resolved (mutated in place)
  order,      \* the order in which "for entry in entries" yields the keys
  idx,        \* the position of the outer for loop in order
  resolved,   \* the set resolved of line 31
  seen,       \* the list seen of the current top-level call
  stack,      \* the active calls of resolve_substitution, innermost last
  status,     \* "running", "returned", "cyclic" or "undefined"
  err,        \* the payload of the raised error (its chain or its name)
  orig,       \* the dictionary as it was passed to the first call
  run,        \* 1 in the first call of substitute, 2 in a second one
  mode,       \* how the second call was made: "again" or "reorder"
  result1,    \* the dictionary the first call returned
  entered,    \* per key, how often resolve_substitution was entered
  written,    \* per key, how often entries[key] was assigned
  substituted \* per key T, the texts that replaced a ${T} in this call

vars == <<entries, order, idx, resolved, seen, stack, status, err, orig,
          run, mode, result1, entered, written, substituted>>

NoName == <<>>

\* No exception raised; CyclicSubstitutionError(chain) with its field chain;
\* UndefinedSubstitutionError(name) with its field name.
NoError == [kind |-> "none", name |-> NoName, chain |-> <<>>]

CyclicSubstitutionError(chain) ==
  [kind |-> "cyclic", name |-> NoName, chain |-> chain]

\* The error UndefinedSubstitutionError would be if its constructor did not
\* keep the name.
UndefinedSubstitutionError_NoName(name) ==
  [kind |-> "undefined", name |-> NoName, chain |-> <<>>]

UndefinedSubstitutionError(name) ==
  [kind |-> "undefined", name |-> name, chain |-> <<>>]

Top == stack[Len(stack)]

\* The stack with its innermost frame replaced by f.
WithTop(f) == [stack EXCEPT ![Len(stack)] = f]

\* A call frame of resolve_substitution(entry, seen): the text handed to
\* re.sub, the position the scan has reached and the output built so far.
Frame(entry, text) == [entry |-> entry, text |-> text, pos |-> 1, out |-> <<>>]

\* ------------------------------------------------------------------------
\* Initial states
\* ------------------------------------------------------------------------

\* The value of the i-th name when the pieces flat are dealt out so that
\* the names get lens[1], lens[2], ... pieces in turn.
RECURSIVE Offset(_, _)
Offset(lens, i) == IF i = 1 THEN 0 ELSE Offset(lens, i - 1) + lens[i - 1]

Deal(flat, lens, i) ==
  Flatten(SubSeq(flat, Offset(lens, i) + 1, Offset(lens, i) + lens[i]))

NameIndex(n) == CHOOSE i \in 1..Len(NameList) : NameList[i] = n

\* How many pieces each name of NameList gets: at most MaxPieces in total,
\* and none for a name that is no key.
Shares(keys) ==
  {l \in [1..Len(NameList) -> 0..MaxPieces] :
     /\ l[1] + l[2] + l[3] <= MaxPieces
     /\ \A i \in 1..Len(NameList) : NameList[i] \notin keys => l[i] = 0}

\* The input mappings are all dictionaries with a non-empty key set whose
\* values are built from at most MaxPieces pieces in total; the keys are
\* iterated in any order.
Init ==
  /\ \E keys \in (SUBSET AllNames) \ {{}} :
       \E lens \in Shares(keys) :
         \E flat \in [1..(lens[1] + lens[2] + lens[3]) -> Pieces] :
           entries = [k \in keys |-> Deal(flat, lens, NameIndex(k))]
  /\ order \in Permutations_(DOMAIN entries)
  /\ orig = entries
  /\ idx = 1
  /\ resolved = {}
  /\ seen = <<>>
  /\ stack = <<>>
  /\ status = "running"
  /\ err = NoError
  /\ run = 1
  /\ mode = "first"
  /\ result1 = entries
  /\ entered = [k \in DOMAIN entries |-> 0]
  /\ written = [k \in DOMAIN entries |-> 0]
  /\ substituted = [k \in DOMAIN entries |-> {}]

\* The diamond: A refers to B and C, which both refer to D, whose value is
\* the literal leaf.
Diamond(leaf) ==
  [k \in {<<"A">>, <<"B">>, <<"C">>, <<"D">>} |->
     IF k = <<"A">> THEN Placeholder(<<"B">>) \o Placeholder(<<"C">>)
     ELSE IF k = <<"D">> THEN leaf
     ELSE Placeholder(<<"D">>)]

\* The inputs of Init and, in addition, the diamond of four entries with a
\* few leaf values, iterated in any order.
InitWide ==
  /\ \/ \E keys \in (SUBSET AllNames) \ {{}} :
          \E lens \in Shares(keys) :
            \E flat \in [1..(lens[1] + lens[2] + lens[3]) -> Pieces] :
              entries = [k \in keys |-> Deal(flat, lens, NameIndex(k))]
     \/ \E leaf \in {<<>>, <<"A">>, <<"$">>} : entries = Diamond(leaf)
  /\ order \in Permutations_(DOMAIN entries)
  /\ orig = entries
  /\ idx = 1
  /\ resolved = {}
  /\ seen = <<>>
  /\ stack = <<>>
  /\ status = "running"
  /\ err = NoError
  /\ run = 1
  /\ mode = "first"
  /\ result1 = entries
  /\ entered = [k \in DOMAIN entries |-> 0]
  /\ written = [k \in DOMAIN entries |-> 0]
  /\ substituted = [k \in DOMAIN entries |-> {}]

\* ------------------------------------------------------------------------
\* Steps of substitute
\* ------------------------------------------------------------------------

\* The assignment with key and value exchanged: d[v] = k.
Assign_Swapped(d, k, v) ==
  [x \in (DOMAIN d) \cup {v} |-> IF x = v THEN k ELSE d[x]]

\* d[k] = v of a Python dictionary: the key is added when it is absent.
Assign(d, k, v) == [x \in (DOMAIN d) \cup {k} |-> IF x = k THEN v ELSE d[x]]

\* The counter c with the count of k raised by one.
Bump(c, k) ==
  [x \in (DOMAIN c) \cup {k} |->
     IF x = k THEN (IF k \in DOMAIN c THEN c[k] + 1 ELSE 1) ELSE c[x]]

\* Line 52: the test that guards the assignment entries[entry] = subst.
\* It compares the key itself (not the stored value) with the result.
StoreNeeded(entry, subst) == entry # subst

\* The test of line 40 if it looked the name up in resolved instead of
\* entries.
IsUndefined_Unresolved(capture) == capture \notin resolved

\* Line 40: the test for an undefined name.
IsUndefined(capture) == capture \notin DOMAIN entries

\* The test of line 42 if an entry counted as resolved from the moment it
\* is first seen.
IsResolved_OrSeen(capture) ==
  capture \in resolved \/ \E i \in 1..Len(seen) : seen[i] = capture

\* The test of line 42 if nothing were memoized.
IsResolved_Never(capture) == FALSE

\* The test of line 42 if an entry on the seen list did not count as
\* memoized.
IsResolved_Unseen(capture) ==
  capture \in resolved /\ ~\E i \in 1..Len(seen) : seen[i] = capture

\* Line 42: the test for a memoized entry.
IsResolved(capture) == capture \in resolved

\* The test of line 44 if the cycle check were missing.
IsSeen_Never(capture) == FALSE

\* The test of line 44 if it looked at the last name of the list only.
IsSeen_LastOnly(capture) == seen # <<>> /\ seen[Len(seen)] = capture

\* Line 44: the test for a name on the seen list.
IsSeen(capture) == \E i \in 1..Len(seen) : seen[i] = capture

\* The copied text if the copy started one character late.
Literal_DropsFirst(f, to) == SubSeq(f.text, f.pos + 1, to)

\* The text of the innermost frame between the scan position and index to.
Literal(f, to) == SubSeq(f.text, f.pos, to)

\* Lines 56-57, entry already resolved: the loop goes on to the next key.
SkipResolved ==
  /\ status = "running"
  /\ stack = <<>>
  /\ idx <= Len(order)
  /\ order[idx] \in resolved
  /\ idx' = idx + 1
  /\ UNCHANGED <<entries, order, resolved, seen, stack, status, err, orig,
                 run, mode, result1, entered, written, substituted>>

\* The entry marked as resolved when its call starts.
TopLevelCall_MarksOnEntry ==
  /\ status = "running"
  /\ stack = <<>>
  /\ idx <= Len(order)
  /\ order[idx] \notin resolved
  /\ seen' = <<order[idx]>>
  /\ stack' = <<Frame(order[idx], entries[order[idx]])>>
  /\ entered' = Bump(entered, order[idx])
  /\ resolved' = resolved \cup {order[idx]}
  /\ UNCHANGED <<entries, order, idx, status, err, orig, run, mode,
                 result1, written, substituted>>

\* Lines 56-58 and 49-51: the loop calls resolve_substitution(entry) with a
\* fresh seen list, which appends entry and starts the scan of its value.
TopLevelCall ==
  /\ status = "running"
  /\ stack = <<>>
  /\ idx <= Len(order)
  /\ order[idx] \notin resolved
  /\ seen' = <<order[idx]>>
  /\ stack' = <<Frame(order[idx], entries[order[idx]])>>
  /\ entered' = Bump(entered, order[idx])
  /\ UNCHANGED <<entries, order, idx, resolved, status, err, orig, run, mode,
                 result1, written, substituted>>

\* Lines 38-47, and 49-51 of the call of line 47: re.sub of the innermost
\* call hands its next match to capture_substituter.
\*  - the name is no key: UndefinedSubstitutionError(capture) is raised;
\*  - the name is resolved: its stored value replaces the placeholder;
\*  - the name is on the seen list: it is appended to the list and the list
\*    is raised as the chain of CyclicSubstitutionError;
\*  - otherwise resolve_substitution(capture, seen) is called with the same
\*    seen list, appends capture and starts the scan of its value.
capture_substituter ==
  /\ status = "running"
  /\ stack # <<>>
  /\ HasMatch(Top.text, Top.pos)
  /\ LET m == NextMatch(Top.text, Top.pos)
         capture == m.capture
         before == Literal(Top, m.start - 1)
     IN  IF IsUndefined(capture) THEN
           /\ status' = "undefined"
           /\ err' = UndefinedSubstitutionError(capture)
           /\ UNCHANGED <<seen, stack, entered, substituted>>
         ELSE IF IsResolved(capture) THEN
           /\ stack' = WithTop([Top EXCEPT
                          !.out = @ \o before \o entries[capture],
                          !.pos = m.end + 1])
           /\ substituted' = [substituted EXCEPT
                                ![capture] = @ \cup {entries[capture]}]
           /\ UNCHANGED <<seen, status, err, entered>>
         ELSE IF IsSeen(capture) THEN
           /\ seen' = Append(seen, capture)
           /\ status' = "cyclic"
           /\ err' = CyclicSubstitutionError(Append(seen, capture))
           /\ UNCHANGED <<stack, entered, substituted>>
         ELSE
           /\ seen' = Append(seen, capture)
           /\ stack' = Append(WithTop([Top EXCEPT
                                 !.out = @ \o before,
                                 !.pos = m.end + 1]),
                              Frame(capture, entries[capture]))
           /\ entered' = Bump(entered, capture)
           /\ UNCHANGED <<status, err, substituted>>
  /\ UNCHANGED <<entries, order, idx, resolved, orig, run, mode, result1,
                 written>>

\* The return of resolve_substitution if line 53, resolved.add(entry), were
\* missing.
Return_Unmarked ==
  /\ status = "running"
  /\ stack # <<>>
  /\ ~HasMatch(Top.text, Top.pos)
  /\ LET entry == Top.entry
         subst == Top.out \o Literal(Top, Len(Top.text))
         rest  == SubSeq(stack, 1, Len(stack) - 1)
     IN  /\ IF StoreNeeded(entry, subst)
              THEN /\ entries' = Assign(entries, entry, subst)
                   /\ written' = Bump(written, entry)
              ELSE UNCHANGED <<entries, written>>
         /\ IF rest = <<>>
              THEN /\ stack' = <<>>
                   /\ idx' = idx + 1
                   /\ UNCHANGED substituted
              ELSE /\ stack' = [rest EXCEPT ![Len(rest)].out = @ \o subst]
                   /\ substituted' = [substituted EXCEPT ![entry] = @ \cup {subst}]
                   /\ UNCHANGED idx
  /\ UNCHANGED <<order, seen, status, err, orig, run, mode, result1, entered,
                 resolved>>

\* Lines 51-54: the scan of the innermost call has no further match; the
\* result is stored (when line 52 says so), the entry is marked resolved and
\* the result is returned: to re.sub of the caller, which puts it in the
\* place of the placeholder, or to the outer loop, which drops it.
Return ==
  /\ status = "running"
  /\ stack # <<>>
  /\ ~HasMatch(Top.text, Top.pos)
  /\ LET entry == Top.entry
         subst == Top.out \o Literal(Top, Len(Top.text))
         rest  == SubSeq(stack, 1, Len(stack) - 1)
     IN  /\ IF StoreNeeded(entry, subst)
              THEN /\ entries' = Assign(entries, entry, subst)
                   /\ written' = Bump(written, entry)
              ELSE UNCHANGED <<entries, written>>
         /\ resolved' = resolved \cup {entry}
         /\ IF rest = <<>>
              THEN /\ stack' = <<>>
                   /\ idx' = idx + 1
                   /\ UNCHANGED substituted
              ELSE /\ stack' = [rest EXCEPT ![Len(rest)].out = @ \o subst]
                   /\ substituted' = [substituted EXCEPT ![entry] = @ \cup {subst}]
                   /\ UNCHANGED idx
  /\ UNCHANGED <<order, seen, status, err, orig, run, mode, result1, entered>>

\* The loop of line 56 left after its first entry.
Finish_Early ==
  /\ status = "running"
  /\ stack = <<>>
  /\ idx > 1
  /\ status' = "returned"
  /\ result1' = IF run = 1 THEN entries ELSE result1
  /\ UNCHANGED <<entries, order, idx, resolved, seen, stack, err, orig, run,
                 mode, entered, written, substituted>>

\* Line 59: the loop is over and the dictionary is returned.
Finish ==
  /\ status = "running"
  /\ stack = <<>>
  /\ idx > Len(order)
  /\ status' = "returned"
  /\ result1' = IF run = 1 THEN entries ELSE result1
  /\ UNCHANGED <<entries, order, idx, resolved, seen, stack, err, orig, run,
                 mode, entered, written, substituted>>

\* The state of a fresh call of substitute (line 31 and the loop start).
FreshCall ==
  /\ idx' = 1
  /\ resolved' = {}
  /\ seen' = <<>>
  /\ stack' = <<>>
  /\ status' = "running"
  /\ err' = NoError
  /\ run' = 2
  /\ entered' = [k \in DOMAIN entries |-> 0]
  /\ written' = [k \in DOMAIN entries |-> 0]
  /\ substituted' = [k \in DOMAIN entries |-> {}]

\* substitute is called a second time on the dictionary it returned
\* (test_trivial_twice, on the result instead of a copy of the input).
SubstituteAgain ==
  /\ status = "returned"
  /\ run = 1
  /\ mode' = "again"
  /\ FreshCall
  /\ UNCHANGED <<entries, order, orig, result1>>

\* substitute is called on a copy of the original dictionary whose keys
\* were inserted in another order.
SubstituteReordered ==
  /\ status = "returned"
  /\ run = 1
  /\ mode' = "reorder"
  /\ entries' = orig
  /\ order' \in Permutations_(DOMAIN orig) \ {order}
  /\ FreshCall
  /\ UNCHANGED <<orig, result1>>

\* substitute is called on a copy of the original dictionary whose keys
\* were inserted in another order, whatever the first call's outcome was;
\* mode keeps that outcome.
SubstituteOtherOrder ==
  /\ status \in {"returned", "cyclic", "undefined"}
  /\ run = 1
  /\ mode' = IF status = "returned" THEN "after_returned"
             ELSE IF status = "cyclic" THEN "after_cyclic"
             ELSE "after_undefined"
  /\ entries' = orig
  /\ order' \in Permutations_(DOMAIN orig) \ {order}
  /\ FreshCall
  /\ UNCHANGED <<orig, result1>>

\* One call of substitute.
Next ==
  \/ SkipResolved
  \/ TopLevelCall
  \/ capture_substituter
  \/ Return
  \/ Finish

Spec == Init /\ [][Next]_vars

\* One call of substitute on the inputs of InitWide.
SpecWide == InitWide /\ [][Next]_vars

\* One call of substitute that is not suspended: the code is synchronous
\* and single-threaded, so a step that can be taken is taken.
FairSpec == Spec /\ WF_vars(Next)

\* Two calls of substitute, the second on the result of the first or on a
\* reordered copy of its input.
NextTwice ==
  \/ Next
  \/ SubstituteAgain
  \/ SubstituteReordered

SpecTwice == Init /\ [][NextTwice]_vars

\* Two calls of substitute on the same mapping in two iteration orders.
NextOrders ==
  \/ Next
  \/ SubstituteOtherOrder

SpecOrders == Init /\ [][NextOrders]_vars

\* ------------------------------------------------------------------------
\* Notions the claims are stated with: the reference graph and the fully
\* substituted form of a mapping
\* ------------------------------------------------------------------------

\* The names the value of k refers to by a placeholder.
Refs(M, k) == Captures(M[k])

\* Every referenced name is a key.
FullyDefined(M) == \A k \in DOMAIN M : Refs(M, k) \subseteq DOMAIN M

RECURSIVE ReachWithin(_, _, _)
\* The keys reached from the names S by at most n further references.
ReachWithin(M, S, n) ==
  IF n = 0 THEN S
  ELSE ReachWithin(M, S \cup UNION {Refs(M, k) : k \in S \cap DOMAIN M}, n - 1)

\* The names k refers to, directly or transitively.
Reach(M, k) == ReachWithin(M, Refs(M, k), Cardinality(DOMAIN M))

\* Some entry refers to itself, directly or transitively.
Cyclic(M) == \E k \in DOMAIN M : k \in Reach(M, k)

Acyclic(M) == ~Cyclic(M)

RECURSIVE FullText(_, _, _)
\* The text from pos on with every placeholder replaced by the fully
\* substituted form of the entry it names (for an acyclic, fully defined M).
FullText(M, text, pos) ==
  IF ~HasMatch(text, pos) THEN SubSeq(text, pos, Len(text))
  ELSE LET m == NextMatch(text, pos)
       IN  SubSeq(text, pos, m.start - 1)
             \o FullText(M, M[m.capture], 1)
             \o FullText(M, text, m.end + 1)

\* The fully substituted form of entry k of M.
Full(M, k) == FullText(M, M[k], 1)

\* The entries on the active call path, outermost first.
ActivePath == [i \in 1..Len(stack) |-> stack[i].entry]

A == <<"A">>

B == <<"B">>

C == <<"C">>

\* ------------------------------------------------------------------------
\* Claims
\* ------------------------------------------------------------------------

\* C1: for every acyclic mapping whose referenced names are all keys,
\* substitute returns normally and every stored value then equals the fully
\* substituted form of the entry's original value.
C1_FullySubstituted ==
  (run = 1 /\ status # "running" /\ FullyDefined(orig) /\ Acyclic(orig)) =>
    /\ status = "returned"
    /\ \A k \in DOMAIN orig : entries[k] = Full(orig, k)

\* C2: when substitute succeeds on a mapping for two iteration orders of its
\* keys, the two resulting mappings are identical.
C2_OrderIndependent ==
  (run = 2 /\ mode = "reorder" /\ status = "returned") => entries = result1

\* C3: for an acyclic, fully defined mapping, substitute applied to the
\* result of substitute succeeds and leaves every value unchanged.
C3_Idempotent ==
  (run = 2 /\ mode = "again" /\ status # "running"
     /\ FullyDefined(orig) /\ Acyclic(orig)) =>
    /\ status = "returned"
    /\ entries = result1

ScansAbsentName ==
  /\ status = "running"
  /\ stack # <<>>
  /\ HasMatch(Top.text, Top.pos)
  /\ NextMatch(Top.text, Top.pos).capture \notin DOMAIN entries

\* The keys whose original value has a placeholder for name n.
Referrers(n) == {k \in DOMAIN orig : n \in Refs(orig, k)}

\* C5: when all referenced names are keys and some entry refers to itself,
\* directly or through other entries, substitute, for every iteration order,
\* neither returns normally nor raises UndefinedSubstitutionError: the only
\* way it ends is CyclicSubstitutionError, and the name that closes the
\* reported chain lies on a cycle, be it a self-reference or a longer one.
C5_CycleDetected ==
  /\ status \in {"returned", "undefined"} =>
       ~(FullyDefined(orig) /\ Cyclic(orig))
  /\ status = "cyclic" =>
       /\ err.kind = "cyclic"
       /\ err.chain[Len(err.chain)] \in Reach(orig, err.chain[Len(err.chain)])

\* C5 witness: the cycle A -> B -> C -> A has been reported.
C5_Witness ==
  /\ status = "cyclic"
  /\ orig = (A :> Placeholder(B)) @@ (B :> Placeholder(C)) @@ (C :> Placeholder(A))

\* C6: a scanned placeholder that names no key makes substitute fail with
\* UndefinedSubstitutionError carrying exactly that name, the error is raised
\* for no other reason, and an acyclic mapping with a placeholder naming an
\* absent key never makes substitute return normally.
C6_UndefinedReference ==
  /\ [][ScansAbsentName =>
          /\ status' = "undefined"
          /\ err' = UndefinedSubstitutionError(NextMatch(Top.text, Top.pos).capture)]_vars
  /\ [](status = "undefined" =>
          /\ err.kind = "undefined"
          /\ err.name \notin DOMAIN entries
          /\ stack # <<>>
          /\ HasMatch(Top.text, Top.pos)
          /\ NextMatch(Top.text, Top.pos).capture = err.name)
  /\ [](status = "returned" => ~(Acyclic(orig) /\ ~FullyDefined(orig)))

\* C6 witness: the absent name was met in a recursive call, in a mapping
\* without a cycle.
C6_Witness ==
  /\ status = "undefined"
  /\ Len(stack) = 2
  /\ Acyclic(orig)
  /\ err.name \in Refs(orig, Top.entry)

\* C7: the chain of CyclicSubstitutionError is the active call path, from
\* the top-level entry to the entry being expanded, followed by the repeated
\* name, and holds no entry whose resolution had already completed.
C7_ChainIsActivePath ==
  status = "cyclic" =>
    /\ err.chain = Append(ActivePath, NextMatch(Top.text, Top.pos).capture)
    /\ \A i \in 1..Len(err.chain) : err.chain[i] \notin resolved

\* C8 as stated: the undefined-reference error carries the referencing
\* entry, or its data determine it (the referencing entry is the only entry
\* with a placeholder for the reported name).
C8_IdentifiesReferrer ==
  status = "undefined" =>
    \/ err.name = Top.entry
    \/ Top.entry \in {err.chain[i] : i \in 1..Len(err.chain)}
    \/ Referrers(err.name) = {Top.entry}

\* C8 as amended: the undefined-reference error carries the absent name and
\* nothing else; that name is no key and is the placeholder being scanned in
\* the referencing entry (the innermost active call), which the error does
\* not name.
C8_IdentifiesAbsentName ==
  status = "undefined" =>
    /\ err = UndefinedSubstitutionError(NextMatch(Top.text, Top.pos).capture)
    /\ err.name \notin DOMAIN orig
    /\ Top.entry \in Referrers(err.name)
    /\ err.name # Top.entry

\* C8 witness: the error was raised for a name two entries refer to.
C8_Witness ==
  /\ status = "undefined"
  /\ Cardinality(Referrers(err.name)) = 2

\* C9: in one call of substitute, for every iteration order, every entry is
\* entered by resolve_substitution at most once and its stored value is
\* assigned at most once, and the stored value of an entry in the resolved
\* set is never assigned again.
C9_AtMostOnce ==
  /\ [](\A k \in DOMAIN entries : entered[k] <= 1 /\ written[k] <= 1)
  /\ [][\A k \in resolved :
          /\ entries'[k] = entries[k]
          /\ written'[k] = written[k]
          /\ entered'[k] = entered[k]]_vars

\* C9 witness: an entry two other entries refer to was entered and assigned
\* once in a call that returned.
C9_Witness ==
  /\ status = "returned"
  /\ \E k \in DOMAIN orig :
       /\ entered[k] = 1
       /\ written[k] = 1
       /\ Cardinality(Referrers(k) \ {k}) = 2

\* C10: in every state of a call, on success and on both error paths, the
\* key set of the dictionary is the key set it had at the start.
C10_KeySetUnchanged == DOMAIN entries = DOMAIN orig

\* C10 witness: a value was rewritten before the call failed with a cycle.
C10_Witness ==
  /\ status = "cyclic"
  /\ \E k \in DOMAIN orig : entries[k] # orig[k]

\* C11: for every mapping and every iteration order substitute eventually
\* finishes, by returning or by raising one of the two errors, and the
\* depth of the recursion never exceeds the number of keys.
C11_Termination ==
  /\ <>(status \in {"returned", "cyclic", "undefined"})
  /\ [](Len(stack) <= Cardinality(DOMAIN orig))

\* C11 witness: the recursion is as deep as the mapping has keys, three.
C11_Witness ==
  /\ Len(stack) = 3
  /\ Cardinality(DOMAIN orig) = 3

\* An error has been raised.
Failed == status \in {"cyclic", "undefined"}

\* C12: the step that raises an error scans no further entry, assigns no
\* stored value and adds no name to the resolved set, no step follows it,
\* and in the state at failure every entry that is not in the resolved set
\* (the entries on the active call path among them) holds its original value.
C12_FailFast ==
  /\ [][Failed' =>
          /\ entries' = entries
          /\ resolved' = resolved
          /\ stack' = stack
          /\ idx' = idx
          /\ entered' = entered
          /\ written' = written]_vars
  /\ [][~Failed]_vars
  /\ [](Failed =>
          \A k \in DOMAIN orig : k \notin resolved => entries[k] = orig[k])

\* C12 witness: an error was raised after an entry had been rewritten and
\* marked resolved, and before the loop reached its last key.
C12_Witness ==
  /\ Failed
  /\ idx < Len(order)
  /\ \E k \in resolved : entries[k] # orig[k]
  /\ \A i \in 1..Len(stack) : stack[i].entry \notin resolved

\* The original value of k has no placeholder.
IsLiteral(k) == Captures(orig[k]) = {}

\* C13: an entry whose original value has no placeholder holds that value in
\* every state of the run and in the result; once it is reached its scan
\* finds nothing to replace and its return adds it to the resolved set, so
\* that it is resolved whenever it is no longer the innermost call and when
\* substitute returns.
C13_LiteralPassthrough ==
  \A k \in DOMAIN orig :
    IsLiteral(k) =>
      /\ entries[k] = orig[k]
      /\ entered[k] >= 1 =>
           \/ k \in resolved
           \/ /\ stack # <<>>
              /\ Top.entry = k
              /\ ~HasMatch(Top.text, Top.pos)
      /\ status = "returned" => k \in resolved

\* C13 witness: substitute returned a mapping with a non-empty literal entry
\* that was reached, assigned and marked resolved.
C13_Witness ==
  /\ status = "returned"
  /\ \E k \in DOMAIN orig :
       /\ IsLiteral(k)
       /\ orig[k] # <<>>
       /\ written[k] = 1
       /\ k \in resolved

\* The innermost call of resolve_substitution is about to return.
Returning ==
  /\ status = "running"
  /\ stack # <<>>
  /\ ~HasMatch(Top.text, Top.pos)

\* The string the innermost call returns (subst of line 51).
ReturnValue == Top.out \o Literal(Top, Len(Top.text))

\* C14: when resolve_substitution(E) returns the string s, the value stored
\* for E is s afterwards, and the assignment is skipped only when s equals
\* the value that was stored for E before.
C14_StoreStep ==
  [][Returning =>
       /\ entries'[Top.entry] = ReturnValue
       /\ written'[Top.entry] = written[Top.entry] =>
            ReturnValue = entries[Top.entry]]_vars

\* The stored value of k has no placeholder that names a key.
InFinalForm(k) == Captures(entries[k]) \cap DOMAIN entries = {}

\* C15: in every state of a call a name is in the resolved set if and only
\* if its stored value is in final form, that is, has no placeholder that
\* still refers to an entry of the mapping.
C15_ResolvedIffFinal ==
  \A k \in DOMAIN entries : k \in resolved <=> InFinalForm(k)

\* resolve_substitution(k) was called and has returned.
Completed(k) ==
  /\ entered[k] >= 1
  /\ \A i \in 1..Len(stack) : stack[i].entry # k

\* C15 (amended): in every state of a call a name is in the resolved set if
\* and only if its call of resolve_substitution has returned, and a name
\* outside the set still has its original value.
C15_ResolvedIffCompleted ==
  \A k \in DOMAIN entries :
    /\ k \in resolved <=> Completed(k)
    /\ k \notin resolved => entries[k] = orig[k]

\* C15 witness: during a call one entry is resolved with a rewritten value
\* while another, whose value is in final form, is not in the set.
C15_Witness ==
  /\ status = "running"
  /\ \E k \in resolved : written[k] = 1 /\ entries[k] # orig[k]
  /\ \E j \in DOMAIN entries \ resolved : InFinalForm(j)

\* How often x occurs in the list s.
Count(s, x) == Cardinality({i \in 1..Len(s) : s[i] = x})

\* C16: the seen list holds every name at most once, except in the state in
\* which a cycle has been detected: there exactly one name, the one appended
\* last, occurs twice, and the list is the chain of the error.
C16_SeenChain ==
  /\ status # "cyclic" => \A i \in 1..Len(seen) : Count(seen, seen[i]) = 1
  /\ status = "cyclic" =>
       /\ err.chain = seen
       /\ Count(seen, seen[Len(seen)]) = 2
       /\ \A i \in 1..Len(seen) :
            seen[i] # seen[Len(seen)] => Count(seen, seen[i]) = 1

\* C16 witness: a cycle was detected with three names on the list before
\* the repeated one was appended.
C16_Witness ==
  /\ status = "cyclic"
  /\ Len(seen) = 4

\* C17: CyclicSubstitutionError is raised only if the reference graph of
\* the original mapping has a cycle, and the name that is reported as
\* repeated is an entry of the active call path that is not resolved: a
\* completed sibling on the seen list (a diamond, a repeated reference) or a
\* name of an earlier top-level call is never reported.
C17_NoFalseCycle ==
  status = "cyclic" =>
    /\ Cyclic(orig)
    /\ seen[Len(seen)] \notin resolved
    /\ \E i \in 1..Len(stack) : stack[i].entry = seen[Len(seen)]

\* C17 witness: the diamond was resolved from A down, so that D was on the
\* seen list as a completed entry when C referred to it, and substitute
\* returned.
C17_Witness ==
  /\ status = "returned"
  /\ orig = Diamond(<<"A">>)
  /\ seen = << <<"A">>, <<"B">>, <<"D">>, <<"C">> >>
  /\ entries[<<"A">>] = <<"A", "A">>

\* C18: for a fixed mapping, a call of substitute in another key order
\* returns normally exactly if the call in the first order did; when both
\* raise, the two errors may be of different kinds.
C18_OutcomeDeterminism ==
  (run = 2 /\ status # "running") =>
     /\ mode = "after_returned" => status = "returned"
     /\ mode \in {"after_cyclic", "after_undefined"} => Failed

\* C18 witness: the same mapping raised CyclicSubstitutionError in one order
\* and UndefinedSubstitutionError in another.
C18_Witness ==
  /\ run = 2
  /\ mode = "after_cyclic"
  /\ status = "undefined"

====
